---- MODULE Spec2Model ----
(***************************************************************************)
(* Model of django_search_views: SearchCategory (single-category search)   *)
(* and Search (search grouped by category), search.py and forms.py.        *)
(*                                                                         *)
(* Text is a sequence of one-character strings, so that stripping,         *)
(* case folding and substring matching are computed, not assumed.          *)
(* An optional value (a Python attribute that may be unset, or None) is a  *)
(* set with at most one element: None == {} and Some(x) == {x}.            *)
(***************************************************************************)
EXTENDS Integers, Sequences, FiniteSets, TLC

VARIABLES categories, search_template, results_template, choices, self,
          request, outcome, instantiated, called

vars == <<categories, search_template, results_template, choices, self,
          request, outcome, instantiated, called>>

\* ---------------------------------------------------------------- bounds
MaxLookups == 2
MaxCategories == 3

\* ------------------------------------------------------- optional values
None == {}
Some(x) == {x}
IsSet(o) == o # {}
Get(o) == CHOOSE x \in o : TRUE

Range(s) == {s[i] : i \in 1..Len(s)}

\* ------------------------------------------------------------------ text
Upper == {"A", "B", "C", "G", "N", "S", "U"}

LowerOf(c) ==
    CASE c = "A" -> "a" [] c = "B" -> "b" [] c = "C" -> "c"
      [] c = "G" -> "g" [] c = "N" -> "n" [] c = "S" -> "s"
      [] c = "U" -> "u" [] OTHER -> c

lower(t) == [i \in 1..Len(t) |-> LowerOf(t[i])]

RECURSIVE lstrip(_)
lstrip(t) == IF t # <<>> /\ Head(t) = " " THEN lstrip(Tail(t)) ELSE t

RECURSIVE rstrip(_)
rstrip(t) ==
    IF t # <<>> /\ t[Len(t)] = " " THEN rstrip(SubSeq(t, 1, Len(t) - 1)) ELSE t

strip(t) == lstrip(rstrip(t))

replace(t, old, new) == [i \in 1..Len(t) |-> IF t[i] = old THEN new ELSE t[i]]

\* needle occurs in hay as a contiguous run
contains(hay, needle) ==
    \E i \in 0..(Len(hay) - Len(needle)) :
        SubSeq(hay, i + 1, i + Len(needle)) = needle

\* django.db.models.options.get_verbose_name: a space goes before every
\* capital that follows a lower-case letter or that is followed by a
\* character that is neither a capital nor the end; then lower-case, strip.
RECURSIVE spaced(_, _)
spaced(t, i) ==
    IF i > Len(t) THEN <<>>
    ELSE LET cap == t[i] \in Upper
             afterLower == i > 1 /\ t[i - 1] \notin Upper
             beforeLower == i < Len(t) /\ t[i + 1] \notin Upper
         IN  (IF cap /\ (afterLower \/ beforeLower) THEN <<" ", t[i]>>
              ELSE <<t[i]>>) \o spaced(t, i + 1)

get_verbose_name(class_name) == strip(lower(spaced(class_name, 1)))

\* --------------------------------------------------------------- records
\* Rows of the two tables searched; a field that is NULL is None.
Ann == [pk |-> 1, name |-> Some(<<"A", "n">>), email |-> None]
Bob == [pk |-> 2, name |-> Some(<<"b">>), email |-> Some(<<"x", "a", "n">>)]
Ana == [pk |-> 3, name |-> Some(<<"a">>), email |-> Some(<<"a">>)]
Gus == [pk |-> 4, name |-> Some(<<"g">>), email |-> None]

Users == {Ann, Bob, Ana}
Staff == {Ann, Bob}
Groups == {Gus}

\* ------------------------------------------------------- field lookups
\* A lookup string is "<field>" or "<field>__<operator>"; the operator
\* defaults to exact.
Lookups == {"name", "name__icontains", "email__icontains"}

lookup_field(lookup) ==
    CASE lookup = "name" -> "name"
      [] lookup = "name__icontains" -> "name"
      [] lookup = "email__icontains" -> "email"

lookup_type(lookup) ==
    CASE lookup = "name" -> "exact"
      [] lookup = "name__icontains" -> "icontains"
      [] lookup = "email__icontains" -> "icontains"

field_value(record, field) ==
    IF field = "name" THEN record.name ELSE record.email

\* Does `record` satisfy the single lookup `lookup` = `value`?
lookup_matches(record, lookup, value) ==
    LET v == field_value(record, lookup_field(lookup))
    IN  /\ IsSet(v)
        /\ IF lookup_type(lookup) = "exact" THEN Get(v) = value
           ELSE contains(lower(Get(v)), lower(value))

\* Q(**{lookup: value}): a condition with one leaf.  A combined Q is the
\* sequence of its leaves under one connector.
Q(lookup, value) == [connector |-> "OR", children |-> <<<<lookup, value>>>>]

\* operator.and_ in place of operator.or_
and_(a, b) == [connector |-> "AND", children |-> a.children \o b.children]

\* operator.or_ on two Q objects
or_(a, b) == [connector |-> "OR", children |-> a.children \o b.children]

\* functools.reduce(function, sequence) for a non-empty sequence
RECURSIVE reduce_or(_)
reduce_or(qs) ==
    IF Len(qs) = 1 THEN qs[1]
    ELSE or_(reduce_or(SubSeq(qs, 1, Len(qs) - 1)), qs[Len(qs)])

q_matches(record, q) ==
    IF q.connector = "OR"
    THEN \E i \in 1..Len(q.children) :
            lookup_matches(record, q.children[i][1], q.children[i][2])
    ELSE \A i \in 1..Len(q.children) :
            lookup_matches(record, q.children[i][1], q.children[i][2])

\* queryset.filter(q)
filter(queryset, q) == {r \in queryset : q_matches(r, q)}

\* ------------------------------------------------------------ outcomes
\* What a call left behind: a returned value, a rendered response or a
\* raised exception.
NoOutcome ==
    [op |-> "none", kind |-> "none", exc |-> "", names |-> None,
     results |-> None, query_data |-> None, template |-> None]

Raise(op, exc, names) ==
    [NoOutcome EXCEPT !.op = op, !.kind = "raise", !.exc = exc, !.names = names]

Return(op, value) ==
    [NoOutcome EXCEPT !.op = op, !.kind = "return", !.results = Some(value)]

\* TemplateResponse(request, template, context)
TemplateResponse(op, template, results, query_data) ==
    [NoOutcome EXCEPT !.op = op, !.kind = "response", !.template = Some(template),
                      !.results = results, !.query_data = query_data]

\* ----------------------------------------------------------------- forms
\* request.GET: q is the submitted text or None when the parameter is
\* missing; category is the submitted choice key, 0 standing for the key ''
\* ("All categories"), or None when the parameter is missing.
QueryTexts ==
    {<<>>, <<"a">>, <<"A">>, <<"a", "n">>, <<"g">>}

\* SearchForm: one required CharField q.  A missing or empty value fails
\* validation; a valid value is cleaned to the submitted text.
SearchForm_is_valid(GET) == IsSet(GET.q) /\ Get(GET.q) # <<>>

SearchForm_cleaned_data(GET) == [q |-> Get(GET.q)]

\* ------------------------------------------------------- SearchCategory
UserCategory == <<"U", "s", "e", "r", "C", "a", "t">>
GroupCategory == <<"G", "r", "o", "u", "p", "C", "a", "t">>
BrokenCategory == <<"B", "r", "o", "k", "e", "n", "C", "a", "t">>

hasattr(obj, attr) ==
    CASE attr = "queryset" -> IsSet(obj.queryset)
      [] attr = "model" -> IsSet(obj.model)
      [] attr = "lookups" -> IsSet(obj.lookups)
      [] attr = "categories" -> IsSet(obj.categories)
      [] attr = "search_template" -> IsSet(obj.search_template)
      [] attr = "results_template" -> IsSet(obj.results_template)

\* The rows get_results searches: self.queryset when the attribute exists,
\* self.model._default_manager.all() otherwise.
data_source(obj) ==
    IF hasattr(obj, "queryset") THEN obj.queryset ELSE obj.model

\* get_results without the "lookups is empty" check: the rows come back
\* unfiltered.
get_results_unchecked_lookups(obj, cleaned_data) ==
    IF \/ ~hasattr(obj, "queryset") /\ ~hasattr(obj, "model")
       \/ ~hasattr(obj, "lookups")
    THEN Raise("get_results", "InvalidConfiguration", Some(obj.name))
    ELSE Return("get_results",
                {r \in Get(data_source(obj)) :
                    \/ Get(obj.lookups) = <<>>
                    \/ \E i \in 1..Len(Get(obj.lookups)) :
                          lookup_matches(r, Get(obj.lookups)[i], cleaned_data.q)})

\* get_results without the try/except around the attribute reads: the
\* AttributeError escapes.
get_results_uncaught(obj, cleaned_data) ==
    IF \/ ~hasattr(obj, "queryset") /\ ~hasattr(obj, "model")
       \/ ~hasattr(obj, "lookups")
    THEN Raise("get_results", "AttributeError", None)
    ELSE IF Get(obj.lookups) = <<>>
         THEN Raise("get_results", "InvalidConfiguration", Some(obj.name))
         ELSE Return("get_results",
                     {r \in Get(data_source(obj)) :
                         \E i \in 1..Len(Get(obj.lookups)) :
                             lookup_matches(r, Get(obj.lookups)[i], cleaned_data.q)})

\* SearchCategory.get_results(self, cleaned_data, request)
get_results(obj, cleaned_data) ==
    IF \/ ~hasattr(obj, "queryset") /\ ~hasattr(obj, "model")
       \/ ~hasattr(obj, "lookups")
    THEN Raise("get_results", "InvalidConfiguration", Some(obj.name))
    ELSE LET queryset == Get(data_source(obj))
             lookups == Get(obj.lookups)
         IN  IF lookups = <<>>
             THEN Raise("get_results", "InvalidConfiguration", Some(obj.name))
             ELSE LET query_string == cleaned_data.q
                      q_lookups == [i \in 1..Len(lookups) |->
                                        Q(lookups[i], query_string)]
                      q == reduce_or(q_lookups)
                  IN  Return("get_results", filter(queryset, q))

\* self.__name__ for a SearchCategory instance: __name__ is an attribute of
\* classes, not of their instances, so the lookup finds nothing.
instance_name(obj) == None

\* The view returned by SearchCategory.results_view(self), applied to a
\* request.  The template name is computed from self.__name__ right after the
\* form is built and before it is validated.
category_results_view(obj, GET) ==
    IF ~IsSet(instance_name(obj))
    THEN Raise("category_results_view", "AttributeError", None)
    ELSE LET name == replace(get_verbose_name(Get(instance_name(obj))), " ", "_")
             template == <<"search/results_">> \o name \o <<".html">>
         IN  IF SearchForm_is_valid(GET)
             THEN LET r == get_results(obj, SearchForm_cleaned_data(GET))
                  IN  IF r.kind = "raise"
                      THEN [r EXCEPT !.op = "category_results_view"]
                      ELSE TemplateResponse("category_results_view", template,
                               r.results, Some(SearchForm_cleaned_data(GET)))
             ELSE TemplateResponse("category_results_view", template, None, None)

LookupLists ==
    UNION {[1..n -> Lookups] : n \in 0..MaxLookups}

\* The category instances an application may construct.
CategoryInstances ==
    [name : {UserCategory},
     queryset : {None, Some(Staff)},
     model : {None, Some(Users)},
     lookups : {None} \cup {Some(l) : l \in LookupLists}]

\* The category classes and instances a Search subclass may list.
category_class(class_name) ==
    CASE class_name = UserCategory ->
            [name |-> UserCategory, queryset |-> Some(Staff), model |-> Some(Users),
             lookups |-> Some(<<"name__icontains", "email__icontains">>)]
      [] class_name = GroupCategory ->
            [name |-> GroupCategory, queryset |-> None, model |-> Some(Groups),
             lookups |-> Some(<<"name">>)]
      [] class_name = BrokenCategory ->
            [name |-> BrokenCategory, queryset |-> None, model |-> None,
             lookups |-> Some(<<"name">>)]

\* An entry of Search.categories is a class (callable: the view instantiates
\* it) or an instance already built.
CategoryEntries ==
    {[callable |-> TRUE, cls |-> UserCategory],
     [callable |-> TRUE, cls |-> BrokenCategory],
     [callable |-> FALSE, cls |-> GroupCategory]}

callable(c) == c.callable

\* c() for a class entry, c itself for an instance entry
instance_of(c) == category_class(c.cls)

\* ----------------------------------------------------------------- Search
SiteSearch == <<"S", "i", "t", "e", "S", "e", "a", "r", "c", "h">>

CustomSearchTemplate == <<"site/search.html">>
CustomResultsTemplate == <<"site/results.html">>

CategoryLists ==
    UNION {[1..n -> CategoryEntries] : n \in 0..MaxCategories}

\* The Search subclass, as its class attributes
cls ==
    [name |-> SiteSearch, categories |-> categories,
     search_template |-> search_template, results_template |-> results_template]

\* getattr(obj, 'search_template', default)
getattr_search_template(klass, default) ==
    IF hasattr(klass, "search_template") THEN Get(klass.search_template)
    ELSE default

\* Search.category_search_view: the choices given to the category field,
\* pairs (key, label) with key 0 standing for ''.
RECURSIVE category_choices(_, _)
category_choices(cats, acc) ==
    IF cats = <<>> THEN acc
    ELSE category_choices(Tail(cats),
            Append(acc, <<Len(acc), get_verbose_name(instance_of(Head(cats)).name)>>))

\* Search.category_search_view(cls) followed by the returned view applied to
\* a request.  Reading cls.categories fails when the attribute is missing.
category_search_view(klass) ==
    IF ~hasattr(klass, "categories")
    THEN [outcome |-> Raise("category_search_view", "AttributeError", None),
          choices |-> <<>>]
    ELSE LET name == replace(get_verbose_name(klass.name), " ", "_")
             template == getattr_search_template(klass,
                             <<"search/search_">> \o name \o <<".html">>)
         IN  [outcome |-> TemplateResponse("category_search_view", template,
                                           None, None),
              choices |-> category_choices(Get(klass.categories),
                                           <<<<0, <<"All categories">>>>>>)]

\* results_loop with the exception of a category caught: the failing category
\* is skipped and the loop goes on.
RECURSIVE results_loop_swallow(_, _, _, _)
results_loop_swallow(cats, cleaned_data, i, acc) ==
    IF i > Len(cats) THEN acc
    ELSE LET c == instance_of(cats[i])
             inst == IF callable(cats[i]) THEN Append(acc.instantiated, i)
                     ELSE acc.instantiated
             r == get_results(c, cleaned_data)
         IN  results_loop_swallow(cats, cleaned_data, i + 1,
                [acc EXCEPT !.instantiated = inst,
                            !.called = Append(acc.called, i),
                            !.results = IF r.kind = "raise" THEN acc.results
                                        ELSE Append(acc.results,
                                                    <<c, Get(r.results)>>)])

\* results_loop that leaves out the categories that found nothing.
RECURSIVE results_loop_skip_empty(_, _, _, _)
results_loop_skip_empty(cats, cleaned_data, i, acc) ==
    IF i > Len(cats) THEN acc
    ELSE LET c == instance_of(cats[i])
             inst == IF callable(cats[i]) THEN Append(acc.instantiated, i)
                     ELSE acc.instantiated
             r == get_results(c, cleaned_data)
         IN  IF r.kind = "raise"
             THEN [acc EXCEPT !.instantiated = inst,
                              !.called = Append(acc.called, i),
                              !.raised = Some(r)]
             ELSE results_loop_skip_empty(cats, cleaned_data, i + 1,
                     [acc EXCEPT !.instantiated = inst,
                                 !.called = Append(acc.called, i),
                                 !.results = IF Get(r.results) = {} THEN acc.results
                                             ELSE Append(acc.results,
                                                         <<c, Get(r.results)>>)])

\* The loop of the view of Search.results_view over cls.categories from the
\* i-th entry on.  acc holds the pairs appended so far, the entries
\* instantiated, the entries whose get_results was called and the exception
\* that ended the loop, if any.
RECURSIVE results_loop(_, _, _, _)
results_loop(cats, cleaned_data, i, acc) ==
    IF i > Len(cats) THEN acc
    ELSE LET c == instance_of(cats[i])
             inst == IF callable(cats[i]) THEN Append(acc.instantiated, i)
                     ELSE acc.instantiated
             r == get_results(c, cleaned_data)
         IN  IF r.kind = "raise"
             THEN [acc EXCEPT !.instantiated = inst,
                              !.called = Append(acc.called, i),
                              !.raised = Some(r)]
             ELSE results_loop(cats, cleaned_data, i + 1,
                     [acc EXCEPT !.instantiated = inst,
                                 !.called = Append(acc.called, i),
                                 !.results = Append(acc.results,
                                                    <<c, Get(r.results)>>)])

EmptyLoop ==
    [results |-> <<>>, instantiated |-> <<>>, called |-> <<>>, raised |-> None]

\* results_view without the hasattr(cls, 'categories') check: the missing
\* attribute is only noticed, as an AttributeError, when a valid form reaches
\* the loop.
results_view_unguarded(klass, GET) ==
    LET valid == SearchForm_is_valid(GET)
        name == replace(get_verbose_name(klass.name), " ", "_")
        template == getattr_search_template(klass,
                        <<"search/results_">> \o name \o <<".html">>)
        loop == IF valid /\ hasattr(klass, "categories")
                THEN results_loop(Get(klass.categories),
                                  SearchForm_cleaned_data(GET), 1, EmptyLoop)
                ELSE EmptyLoop
    IN  IF valid /\ ~hasattr(klass, "categories")
        THEN [outcome |-> Raise("results_view", "AttributeError", None),
              loop |-> EmptyLoop]
        ELSE IF IsSet(loop.raised)
        THEN [outcome |-> [Get(loop.raised) EXCEPT !.op = "results_view"],
              loop |-> loop]
        ELSE [outcome |-> TemplateResponse("results_view", template,
                              Some(loop.results),
                              IF valid THEN Some(SearchForm_cleaned_data(GET))
                              ELSE None),
              loop |-> loop]

\* results_view without the form.is_valid() test: the loop runs on an invalid
\* form too, and the first get_results fails on the missing key 'q'.
results_view_unvalidated(klass, GET) ==
    IF ~hasattr(klass, "categories")
    THEN [outcome |-> Raise("results_view", "InvalidConfiguration", None),
          loop |-> EmptyLoop]
    ELSE LET valid == SearchForm_is_valid(GET)
             cats == Get(klass.categories)
             name == replace(get_verbose_name(klass.name), " ", "_")
             template == getattr_search_template(klass,
                             <<"search/results_">> \o name \o <<".html">>)
             loop == IF valid
                     THEN results_loop(cats, SearchForm_cleaned_data(GET), 1,
                                       EmptyLoop)
                     ELSE IF cats = <<>> THEN EmptyLoop
                     ELSE [EmptyLoop EXCEPT
                              !.instantiated = IF callable(cats[1]) THEN <<1>>
                                               ELSE <<>>,
                              !.called = <<1>>,
                              !.raised = Some(Raise("get_results", "KeyError", None))]
         IN  IF IsSet(loop.raised)
             THEN [outcome |-> [Get(loop.raised) EXCEPT !.op = "results_view"],
                   loop |-> loop]
             ELSE [outcome |-> TemplateResponse("results_view", template,
                                   Some(loop.results),
                                   IF valid THEN Some(SearchForm_cleaned_data(GET))
                                   ELSE None),
                   loop |-> loop]

\* Search.results_view(cls) followed by the returned view applied to a
\* request: the outcome and the trace of the loop.
results_view(klass, GET) ==
    IF ~hasattr(klass, "categories")
    THEN [outcome |-> Raise("results_view", "InvalidConfiguration", None),
          loop |-> EmptyLoop]
    ELSE LET valid == SearchForm_is_valid(GET)
             loop == IF valid
                     THEN results_loop(Get(klass.categories),
                                       SearchForm_cleaned_data(GET), 1, EmptyLoop)
                     ELSE EmptyLoop
             query == IF valid THEN Some(SearchForm_cleaned_data(GET)) ELSE None
             name == replace(get_verbose_name(klass.name), " ", "_")
             template == getattr_search_template(klass,
                             <<"search/results_">> \o name \o <<".html">>)
         IN  IF IsSet(loop.raised)
             THEN [outcome |-> [Get(loop.raised) EXCEPT !.op = "results_view"],
                   loop |-> loop]
             ELSE [outcome |-> TemplateResponse("results_view", template,
                                                Some(loop.results), query),
                   loop |-> loop]

\* ---------------------------------------------------------- state machine
NoRequest == [q |-> None, category |-> None]

Queries == {None} \cup {Some(t) : t \in QueryTexts}

\* The class attributes of the Search subclass are fixed when the process
\* starts; no form has been rendered and no call made yet.
InitSearch ==
    /\ categories \in {None} \cup {Some(l) : l \in CategoryLists}
    /\ search_template \in {None, Some(CustomSearchTemplate)}
    /\ results_template \in {None, Some(CustomResultsTemplate)}
    /\ choices = <<>>
    /\ self = None
    /\ request = NoRequest
    /\ outcome = NoOutcome
    /\ instantiated = <<>>
    /\ called = <<>>

\* A process that uses SearchCategory alone: no Search subclass is declared.
InitCategory ==
    /\ categories = None
    /\ search_template = None
    /\ results_template = None
    /\ choices = <<>>
    /\ self = None
    /\ request = NoRequest
    /\ outcome = NoOutcome
    /\ instantiated = <<>>
    /\ called = <<>>

\* An application builds a SearchCategory instance.  The class defines no
\* __init__, so nothing is checked.
Construct(obj) ==
    /\ self' = Some(obj)
    /\ outcome' = [NoOutcome EXCEPT !.op = "construct", !.kind = "return"]
    /\ request' = NoRequest
    /\ instantiated' = <<>>
    /\ called' = <<>>
    /\ UNCHANGED <<categories, search_template, results_template, choices>>

\* self.get_results({'q': text})
GetResults(text) ==
    /\ IsSet(self)
    /\ request' = [q |-> Some(text), category |-> None]
    /\ outcome' = get_results(Get(self), [q |-> text])
    /\ instantiated' = <<>>
    /\ called' = <<>>
    /\ UNCHANGED <<categories, search_template, results_template, choices, self>>

\* self.results_view()(request)
CategoryResultsView(GET) ==
    /\ IsSet(self)
    /\ request' = GET
    /\ outcome' = category_results_view(Get(self), GET)
    /\ instantiated' = <<>>
    /\ called' = <<>>
    /\ UNCHANGED <<categories, search_template, results_template, choices, self>>

\* cls.category_search_view()(request): the search form with the category
\* choices is rendered.
CategorySearchView ==
    LET r == category_search_view(cls)
    IN  /\ request' = NoRequest
        /\ outcome' = r.outcome
        /\ choices' = r.choices
        /\ instantiated' = <<>>
        /\ called' = <<>>
        /\ UNCHANGED <<categories, search_template, results_template, self>>

\* The category keys a request may carry: none, or a key of the choices of
\* the form last rendered by category_search_view.
CategoryKeys == {None} \cup {Some(choices[i][1]) : i \in 1..Len(choices)}

\* cls.results_view()(request)
SearchResultsView(GET) ==
    LET r == results_view(cls, GET)
    IN  /\ request' = GET
        /\ outcome' = r.outcome
        /\ instantiated' = r.loop.instantiated
        /\ called' = r.loop.called
        /\ UNCHANGED <<categories, search_template, results_template, choices, self>>

NextCategory ==
    \/ \E obj \in CategoryInstances : Construct(obj)
    \/ \E text \in QueryTexts : GetResults(text)
    \/ \E GET \in [q : Queries, category : {None}] : CategoryResultsView(GET)

NextSearch ==
    \/ CategorySearchView
    \/ \E GET \in [q : Queries, category : CategoryKeys] : SearchResultsView(GET)

SpecCategory == InitCategory /\ [][NextCategory]_vars

SpecSearch == InitSearch /\ [][NextSearch]_vars

\* ------------------------------------------------------------ properties
\* The category has a data source and a non-empty lookups list.
Configured(obj) ==
    /\ IsSet(obj.queryset) \/ IsSet(obj.model)
    /\ IsSet(obj.lookups)
    /\ Get(obj.lookups) # <<>>

\* The rearrangements of a sequence
Perms(L) ==
    {[i \in 1..Len(L) |-> L[f[i]]] :
        f \in {g \in [1..Len(L) -> 1..Len(L)] :
                 \A i, j \in 1..Len(L) : g[i] = g[j] => i = j}}

\* C1: get_results on a category with a data source and a non-empty lookups
\* list returns exactly the rows of the data source that match the query text
\* under at least one of the lookups, and every rearrangement of the lookups
\* returns the same rows.
C1_OrOfLookups ==
    (outcome.op = "get_results" /\ Configured(Get(self))) =>
        LET obj == Get(self)
            text == Get(request.q)
            L == Get(obj.lookups)
        IN  /\ outcome.kind = "return"
            /\ Get(outcome.results) =
                  {r \in Get(data_source(obj)) :
                      \E l \in Range(L) : lookup_matches(r, l, text)}
            /\ \A p \in Perms(L) :
                  LET other == get_results([obj EXCEPT !.lookups = Some(p)],
                                           [q |-> text])
                  IN  other.kind = "return" /\ other.results = outcome.results

\* Two different lookups, each of them the only one that finds some returned
\* row, and a row of the data source that is not returned.
C1_Witness ==
    /\ outcome.op = "get_results"
    /\ outcome.kind = "return"
    /\ Configured(Get(self))
    /\ LET L == Get(Get(self).lookups)
           text == Get(request.q)
           found == Get(outcome.results)
       IN  /\ Len(L) = 2
           /\ L[1] # L[2]
           /\ \E r \in found : ~lookup_matches(r, L[1], text)
           /\ \E r \in found : ~lookup_matches(r, L[2], text)
           /\ found # Get(data_source(Get(self)))

\* C2: get_results on a category whose lookups list is empty raises
\* InvalidConfiguration and returns nothing, with or without a data source.
C2_EmptyLookupsRaise ==
    (outcome.op = "get_results" /\ Get(self).lookups = Some(<<>>)) =>
        /\ outcome.kind = "raise"
        /\ outcome.exc = "InvalidConfiguration"
        /\ outcome.results = None

C2_Witness ==
    /\ outcome.op = "get_results"
    /\ Get(self).lookups = Some(<<>>)
    /\ IsSet(Get(self).queryset)
    /\ Get(request.q) # <<>>
    /\ outcome.kind = "raise"

\* C3: a category with neither queryset nor model is constructed without
\* error, and every get_results call on it raises InvalidConfiguration naming
\* the category class.
C3_LazyConfigurationError ==
    (IsSet(self) /\ ~IsSet(Get(self).queryset) /\ ~IsSet(Get(self).model)) =>
        /\ outcome.op = "construct" => outcome.kind = "return"
        /\ outcome.op = "get_results" =>
              /\ outcome.kind = "raise"
              /\ outcome.exc = "InvalidConfiguration"
              /\ outcome.names = Some(Get(self).name)
              /\ outcome.results = None

C3_Witness ==
    /\ outcome.op = "get_results"
    /\ ~IsSet(Get(self).queryset)
    /\ ~IsSet(Get(self).model)
    /\ IsSet(Get(self).lookups)
    /\ Get(Get(self).lookups) # <<>>
    /\ outcome.kind = "raise"
    /\ outcome.exc = "InvalidConfiguration"

\* C9: the view of SearchCategory.results_view on a configured category
\* answers every request with a response: results of get_results and the
\* cleaned data for a valid form, None and None for an invalid one.
C9_CategoryViewResponds ==
    (outcome.op = "category_results_view" /\ Configured(Get(self))) =>
        /\ outcome.kind = "response"
        /\ IF SearchForm_is_valid(request)
           THEN /\ outcome.results =
                      get_results(Get(self), SearchForm_cleaned_data(request)).results
                /\ outcome.query_data = Some(SearchForm_cleaned_data(request))
           ELSE /\ outcome.results = None
                /\ outcome.query_data = None

\* The positions of cls.categories whose category is not configured
Misconfigured ==
    {i \in 1..Len(Get(categories)) : ~Configured(instance_of(Get(categories)[i]))}

\* C4: with at least one category, all of them configured, and a valid form,
\* the view of Search.results_view responds with one pair per category, the
\* i-th pair holding the i-th category and what its get_results returned,
\* however many rows that is.
C4_OnePairPerCategory ==
    (/\ outcome.op = "results_view"
     /\ IsSet(categories)
     /\ Len(Get(categories)) >= 1
     /\ Misconfigured = {}
     /\ SearchForm_is_valid(request)) =>
        /\ outcome.kind = "response"
        /\ Len(Get(outcome.results)) = Len(Get(categories))
        /\ \A i \in 1..Len(Get(categories)) :
              LET c == instance_of(Get(categories)[i])
              IN  /\ Get(outcome.results)[i][1] = c
                  /\ Get(outcome.results)[i][2] =
                        {r \in Get(data_source(c)) :
                            \E l \in Range(Get(c.lookups)) :
                                lookup_matches(r, l, Get(request.q))}

\* Two different categories, the first finding rows and the second none.
C4_Witness ==
    /\ outcome.op = "results_view"
    /\ outcome.kind = "response"
    /\ SearchForm_is_valid(request)
    /\ IsSet(categories)
    /\ Len(Get(categories)) = 2
    /\ Get(categories)[1] # Get(categories)[2]
    /\ Len(Get(outcome.results)) = 2
    /\ Get(outcome.results)[1][2] # {}
    /\ Get(outcome.results)[2][2] = {}

\* C5: when the form is invalid, the view of Search.results_view responds
\* with an empty result list and query_data None, and no category is
\* instantiated or asked for results, however many categories there are.
C5_InvalidFormNoCalls ==
    (/\ outcome.op = "results_view"
     /\ IsSet(categories)
     /\ ~IsSet(request.q) \/ Get(request.q) = <<>>) =>
        /\ outcome.kind = "response"
        /\ outcome.results = Some(<<>>)
        /\ outcome.query_data = None
        /\ instantiated = <<>>
        /\ called = <<>>

C5_Witness ==
    /\ outcome.op = "results_view"
    /\ outcome.kind = "response"
    /\ request.q = Some(<<>>)
    /\ IsSet(categories)
    /\ Len(Get(categories)) >= 2
    /\ \E i \in 1..Len(Get(categories)) : callable(Get(categories)[i])
    /\ called = <<>>

\* C6 as stated: Search.results_view fails with InvalidConfiguration when
\* the categories attribute is missing and when the categories list is empty.
C6_AbsentOrEmptyRaise ==
    (/\ outcome.op = "results_view"
     /\ ~IsSet(categories) \/ categories = Some(<<>>)) =>
        /\ outcome.kind = "raise"
        /\ outcome.exc = "InvalidConfiguration"

\* C6 amended: Search.results_view fails with InvalidConfiguration when the
\* categories attribute is missing; with an empty categories list it raises
\* nothing and the view responds with an empty result list.
C6_AbsentRaisesEmptyResponds ==
    outcome.op = "results_view" =>
        /\ ~IsSet(categories) =>
              /\ outcome.kind = "raise"
              /\ outcome.exc = "InvalidConfiguration"
              /\ outcome.results = None
              /\ called = <<>>
        /\ categories = Some(<<>>) =>
              /\ outcome.kind = "response"
              /\ outcome.results = Some(<<>>)
              /\ called = <<>>

C6_Witness ==
    /\ outcome.op = "results_view"
    /\ ~IsSet(categories)
    /\ SearchForm_is_valid(request)
    /\ outcome.kind = "raise"
    /\ outcome.exc = "InvalidConfiguration"

\* C7: when a valid request carries the key of a category chosen from the
\* choices built by category_search_view, the view of Search.results_view
\* asks only that category for results and the result list is the one pair
\* of that category.
C7_OnlySelectedCategory ==
    (/\ outcome.op = "results_view"
     /\ SearchForm_is_valid(request)
     /\ IsSet(request.category)
     /\ Get(request.category) >= 1
     /\ ~Get(request.category) \in Misconfigured) =>
        LET k == Get(request.category)
        IN  /\ outcome.kind = "response"
            /\ called = <<k>>
            /\ Len(Get(outcome.results)) = 1
            /\ Get(outcome.results)[1][1] = instance_of(Get(categories)[k])

\* C8: with a valid form, when get_results of the k-th category is the first
\* to raise InvalidConfiguration, the exception leaves the view: there is no
\* response and no result list, the categories 1..k were asked and the ones
\* after the k-th were not.
C8_FailFast ==
    (/\ outcome.op = "results_view"
     /\ IsSet(categories)
     /\ SearchForm_is_valid(request)
     /\ Misconfigured # {}) =>
        LET k == CHOOSE i \in Misconfigured : \A j \in Misconfigured : i <= j
        IN  /\ outcome.kind = "raise"
            /\ outcome.exc = "InvalidConfiguration"
            /\ outcome.names = Some(Get(categories)[k].cls)
            /\ outcome.results = None
            /\ outcome.template = None
            /\ called = [i \in 1..k |-> i]

\* A configured category before the failing one and another after it.
C8_Witness ==
    /\ outcome.op = "results_view"
    /\ outcome.kind = "raise"
    /\ SearchForm_is_valid(request)
    /\ IsSet(categories)
    /\ Len(Get(categories)) = 3
    /\ Misconfigured = {2}
    /\ called = <<1, 2>>

\* C10: the view of Search.results_view renders results_template when the
\* class sets it and search/results_<class_name>.html otherwise, whatever
\* search_template is.
C10_ResultsTemplate ==
    (outcome.op = "results_view" /\ outcome.kind = "response") =>
        outcome.template =
            Some(IF IsSet(results_template) THEN Get(results_template)
                 ELSE <<"search/results_">>
                      \o replace(get_verbose_name(SiteSearch), " ", "_")
                      \o <<".html">>)

====
